---------------------------- MODULE Spec2Model ----------------------------
(***************************************************************************)
(* SeekrBoard lost-and-found backend: the request handlers of              *)
(* src/routes.js over the Firestore collections items, matches and         *)
(* notifications.  Every awaited store call is one atomic step of the      *)
(* request that issues it; requests of different callers interleave        *)
(* between their awaits.  JavaScript strings are sequences of one-character*)
(* strings, so that trim, toLowerCase, includes and split are computed.    *)
(***************************************************************************)
EXTENDS Integers, Sequences, FiniteSets, TLC

(***************************************************************************)
(* Bounds of the model.                                                    *)
(***************************************************************************)
MaxItems == 2
MaxSerialItems == 3
MaxWrites == 2

Procs == {1, 2}
Users == {"u1", "u2"}

(***************************************************************************)
(* JavaScript string operations.                                           *)
(***************************************************************************)
UpperAlpha == <<"A","B","C","D","E","F","G","H","I","J","K","L","M",
                "N","O","P","Q","R","S","T","U","V","W","X","Y","Z">>
LowerAlpha == <<"a","b","c","d","e","f","g","h","i","j","k","l","m",
                "n","o","p","q","r","s","t","u","v","w","x","y","z">>

LowerChar(c) ==
  IF \E i \in 1..Len(UpperAlpha) : UpperAlpha[i] = c
  THEN LowerAlpha[CHOOSE i \in 1..Len(UpperAlpha) : UpperAlpha[i] = c]
  ELSE c

\* String.prototype.toLowerCase
toLowerCase(s) == [i \in 1..Len(s) |-> LowerChar(s[i])]

\* String.prototype.includes: t occurs in s as a contiguous substring
includes(s, t) ==
  \E i \in 0..(Len(s) - Len(t)) : SubSeq(s, i + 1, i + Len(t)) = t

RECURSIVE TrimStart(_)
TrimStart(s) == IF s # <<>> /\ Head(s) = " " THEN TrimStart(Tail(s)) ELSE s

RECURSIVE TrimEnd(_)
TrimEnd(s) ==
  IF s # <<>> /\ s[Len(s)] = " " THEN TrimEnd(SubSeq(s, 1, Len(s) - 1)) ELSE s

\* String.prototype.trim
trim(s) == TrimEnd(TrimStart(s))

\* String.prototype.split(' '): every single space separates two tokens, so
\* consecutive spaces give empty tokens and '' gives the one token ''.
RECURSIVE split(_)
split(s) ==
  IF \E i \in 1..Len(s) : s[i] = " "
  THEN LET i == CHOOSE k \in 1..Len(s) :
                  s[k] = " " /\ \A j \in 1..(k - 1) : s[j] # " "
       IN <<SubSeq(s, 1, i - 1)>> \o split(SubSeq(s, i + 1, Len(s)))
  ELSE <<s>>

\* Array.prototype.includes
arrayIncludes(arr, x) == \E i \in 1..Len(arr) : arr[i] = x

\* Array.prototype.filter(...).length
RECURSIVE filterCount(_, _)
filterCount(words, others) ==
  IF words = <<>> THEN 0
  ELSE (IF arrayIncludes(others, Head(words)) THEN 1 ELSE 0)
       + filterCount(Tail(words), others)

Min(a, b) == IF a <= b THEN a ELSE b

\* A request field that was not sent (undefined in JavaScript).
Absent == <<"undefined">>

\* JavaScript truthiness of a string-valued field
Truthy(v) == v # Absent /\ v # <<>>

\* v?.trim() || ''
trimOrEmpty(v) == IF Truthy(v) THEN trim(v) ELSE <<>>

(***************************************************************************)
(* Scoring (generateMatches, lines 81-103).                                *)
(***************************************************************************)
\* mutation of TitleScore: only the new title is looked for in the existing
TitleScoreMutant(existingItem, newItemData) ==
  IF includes(toLowerCase(existingItem.title), toLowerCase(newItemData.title))
  THEN 40 ELSE 0

TitleScore(existingItem, newItemData) ==
  IF includes(toLowerCase(existingItem.title), toLowerCase(newItemData.title))
     \/ includes(toLowerCase(newItemData.title), toLowerCase(existingItem.title))
  THEN 40 ELSE 0

DescriptionScore(existingItem, newItemData) ==
  IF Truthy(existingItem.description) /\ Truthy(newItemData.description)
  THEN LET descWords == split(toLowerCase(newItemData.description))
           existingDescWords == split(toLowerCase(existingItem.description))
       IN Min(filterCount(descWords, existingDescWords) * 5, 30)
  ELSE 0

LocationScore(existingItem, newItemData) ==
  IF Truthy(existingItem.location) /\ Truthy(newItemData.location)
  THEN IF toLowerCase(existingItem.location) = toLowerCase(newItemData.location)
       THEN 20
       ELSE IF includes(toLowerCase(existingItem.location),
                        toLowerCase(newItemData.location))
               \/ includes(toLowerCase(newItemData.location),
                           toLowerCase(existingItem.location))
            THEN 10 ELSE 0
  ELSE 0

confidenceScore(existingItem, newItemData) ==
  TitleScore(existingItem, newItemData)
  + DescriptionScore(existingItem, newItemData)
  + LocationScore(existingItem, newItemData)


(***************************************************************************)
(* Request inputs.  status is an atomic value: the handlers only compare   *)
(* it for equality; '' stands for an empty or missing status field.        *)
(***************************************************************************)
sKey     == <<"K","e","y">>
sKeys    == <<"k","e","y","s">>
sBag     == <<"b","a","g">>
sBlank   == <<" "," ">>
sBags    == <<"B","a","g","s">>
sBagsPad == <<" ","B","a","g","s">>
sTools   == <<"T","o","o","l","s">>
sRedRed  == <<"r","e","d"," ","r","e","d">>
sRed     == <<"R","e","d">>
sLab     == <<"L","a","b">>
sLAB     == <<"L","A","B">>

sRedBag  == <<"r","e","d"," ","b","a","g">>
sBagRed  == <<"B","a","g"," ","r","e","d">>
sLabTwo  == <<"L","a","b"," ","2">>

\* a POST /items request: the authenticated user, the form fields, the file
Post(u, t, d, c, l, s, f) ==
  [user |-> u, title |-> t, description |-> d, category |-> c,
   location |-> l, status |-> s, hasFile |-> f]

NoPost == Post("none", Absent, Absent, Absent, Absent, "", FALSE)

\* Four posts that pass the handler's validation: a Lost report, a Found
\* report whose title contains the first one's, a Found report that differs
\* in title but shares description words and the location, and a report in
\* another category whose title is only spaces.  Four that do not.
Posts ==
  { Post("u1", sKey,   sRedRed, sBags,    sLab,   "Lost",  TRUE),
    Post("u2", sKeys,  Absent,  sBagsPad, <<>>,   "Found", FALSE),
    Post("u1", sBag,   sRed,    sBags,    sLAB,   "Found", FALSE),
    Post("u2", sBlank, sRed,    sTools,   Absent, "Lost",  FALSE),
    Post("u1", <<>>,   sRed,    sBags,    sLab,   "Lost",  TRUE),
    Post("u1", sKey,   sRed,    Absent,   sLab,   "Found", FALSE),
    Post("u2", sKey,   sRed,    sBags,    sLab,   "lost",  TRUE),
    Post("u1", sKey,   sRed,    sBags,    sLab,   "",      FALSE) }

MatchStatusInputs == {"Pending", "Confirmed", "Rejected", "Invalid"}

(***************************************************************************)
(* State.                                                                  *)
(*   items, matches, notifications: the Firestore collections; a document  *)
(*     id is its index.                                                    *)
(*   now: the server clock behind FieldValue.serverTimestamp().            *)
(*   req: the request each worker slot is serving, with the handler's      *)
(*     local variables and its position pc.                                *)
(*   last: the most recent response sent, with the request it answers.     *)
(*   matchCand: history, the candidate (pre-existing) item of each match.  *)
(***************************************************************************)
VARIABLES items, matches, notifications, now, req, last, matchCand

vars == <<items, matches, notifications, now, req, last, matchCand>>
store == <<items, matches, notifications>>

IdleReq ==
  [op |-> "none", pc |-> "idle", user |-> "none", body |-> NoPost,
   id |-> 0, status |-> "", prior |-> "", itemId |-> 0, image_url |-> "",
   uploadStarted |-> FALSE, snapshot |-> {}, cand |-> 0, score |-> 0,
   matchId |-> 0, matches |-> <<>>, genError |-> FALSE, pending |-> {},
   failed |-> FALSE]

Free(p) == req[p].pc = "idle"

\* A request that arrives is served in the first free slot.
Accepts(p) == Free(p) /\ \A q \in Procs : q < p => ~Free(q)

\* What is kept of an answered request: the request (operation, user,
\* form fields, document id, requested match status), the match status the
\* handler read, the item created, whether an upload was started and the url
\* it gave, whether generateMatches logged an error, and the response
\* (status code, match list).
Answer(r, code, result) ==
  [op |-> r.op, user |-> r.user, body |-> r.body, id |-> r.id,
   status |-> r.status, prior |-> r.prior, itemId |-> r.itemId,
   uploadStarted |-> r.uploadStarted, image_url |-> r.image_url,
   genError |-> r.genError, code |-> code, matches |-> result]

NoAnswer == Answer(IdleReq, 0, <<>>)

\* res.status(code).json(...): the response leaves and the slot is free again.
Respond(p, r, code, result) ==
  /\ req' = [req EXCEPT ![p] = IdleReq]
  /\ last' = Answer(r, code, result)

Init ==
  /\ items = <<>>
  /\ matches = <<>>
  /\ notifications = <<>>
  /\ now = 1
  /\ req = [p \in Procs |-> IdleReq]
  /\ last = NoAnswer
  /\ matchCand = <<>>

Continue(p, r) ==
  /\ req' = [req EXCEPT ![p] = r]
  /\ UNCHANGED last

(***************************************************************************)
(* POST /items                                                             *)
(***************************************************************************)
StatusTruthy(s) == s # ""

\* lines 194-206
CreateItemValid(body) ==
  /\ Truthy(body.title) /\ Truthy(body.category) /\ StatusTruthy(body.status)
  /\ body.status \in {"Lost", "Found"}

\* lines 224-234
itemData(body, uid, image_url) ==
  [title |-> trim(body.title),
   description |-> trimOrEmpty(body.description),
   category |-> trim(body.category),
   location |-> trimOrEmpty(body.location),
   image_url |-> image_url,
   posted_by |-> uid,
   status |-> body.status]

\* the status answered when uploadImageToStorage rejects (lines 214-220)
UploadFailedCode == 400

\* itemRef.set(itemData) (lines 236-237); a rejected write is caught at 252.
CreateItemSet(p, r) ==
  \E ok \in BOOLEAN :
    IF ok
    THEN /\ items' = Append(items, itemData(r.body, r.user, r.image_url))
         /\ Continue(p, [r EXCEPT !.pc = "query", !.itemId = Len(items) + 1])
    ELSE /\ Respond(p, r, 500, <<>>)
         /\ UNCHANGED items

\* mutation of AfterUpload: a rejected upload is ignored, the item is
\* created without an image
AfterUploadMutant(p, r, uploaded) ==
  CreateItemSet(p, [r EXCEPT !.image_url = IF uploaded THEN "url" ELSE ""])

\* lines 211-221: the url on success, the 400 answer when the upload rejects
AfterUpload(p, r, uploaded) ==
  IF uploaded
  THEN CreateItemSet(p, [r EXCEPT !.image_url = "url"])
  ELSE Respond(p, r, UploadFailedCode, <<>>) /\ UNCHANGED items

\* The handler up to the item write (lines 191-237): validation, the optional
\* image upload, itemRef.set.  Nothing before the write reads or changes the
\* store, so the request becomes visible to the others at the write.
CreateItemUpTo(p, n) ==
  /\ Accepts(p)
  /\ Len(items) < n
  /\ \E body \in Posts :
       LET r == [IdleReq EXCEPT !.op = "createItem", !.user = body.user,
                                !.body = body]
       IN IF ~CreateItemValid(body)
          THEN Respond(p, r, 400, <<>>) /\ UNCHANGED items
          ELSE IF body.hasFile
          THEN \E uploaded \in BOOLEAN :
                 AfterUpload(p, [r EXCEPT !.uploadStarted = TRUE], uploaded)
          ELSE CreateItemSet(p, r)
  /\ UNCHANGED <<matches, notifications, now, matchCand>>

(***************************************************************************)
(* generateMatches                                                         *)
(***************************************************************************)
Threshold == 30

Opposite(status) == IF status = "Lost" THEN "Found" ELSE "Lost"

\* mutation of Candidates: the status filter is left out
CandidatesAnyStatusMutant(newItem) ==
  { i \in DOMAIN items : items[i].category = newItem.category }

\* mutation of Candidates: the category filter is left out
CandidatesMutant(newItem) ==
  { i \in DOMAIN items : items[i].status = Opposite(newItem.status) }

\* the query of lines 72-74
Candidates(newItem) ==
  { i \in DOMAIN items :
      /\ items[i].category = newItem.category
      /\ items[i].status = Opposite(newItem.status) }

\* the item data generateMatches was called with (line 240)
newItemData(r) == itemData(r.body, r.user, r.image_url)

\* mutation of matchData: the sides follow the roles, the new item is always
\* taken as the lost one
matchDataMutant(newItemId, status, docId, score) ==
  [lost_item_id |-> newItemId,
   found_item_id |-> docId,
   confidence_score |-> score,
   status |-> "Pending",
   updated_at |-> 0]

\* lines 107-113
matchData(newItemId, status, docId, score) ==
  [lost_item_id |-> IF status = "Lost" THEN newItemId ELSE docId,
   found_item_id |-> IF status = "Found" THEN newItemId ELSE docId,
   confidence_score |-> score,
   status |-> "Pending",
   updated_at |-> 0]

\* mutation of notificationData: addressed to the new item's poster
notificationDataMutant(existingItem, newItem, matchId) ==
  [user_id |-> newItem.posted_by,
   is_read |-> FALSE,
   match_id |-> matchId,
   read_at |-> 0]

\* lines 119-125
notificationData(existingItem, newItem, matchId) ==
  [user_id |-> existingItem.posted_by,
   is_read |-> FALSE,
   match_id |-> matchId,
   read_at |-> 0]

\* mutation of Caught: the matches pushed before the error are returned
CaughtMutant(matchesSoFar) == matchesSoFar

\* the catch of lines 143-146: the value generateMatches returns on an error
Caught(matchesSoFar) == <<>>

\* the status POST /items answers after generateMatches returned (line 242)
CreatedCode == 201

\* A store call of generateMatches rejects: the error is logged, the catch
\* returns and POST /items answers (lines 143-146, 242-251).
GenFailed(p, r) ==
  Respond(p, [r EXCEPT !.genError = TRUE], CreatedCode, Caught(r.matches))

\* mutation of AboveThreshold: a lower threshold
AboveThresholdMutant(score) == score > 20

\* the threshold test of line 106
AboveThreshold(score) == score >= Threshold

\* The loop of lines 79-140 from the documents of the snapshot not yet
\* visited up to its next await: documents below the threshold are passed
\* without a store call; at the first one that reaches it the request is
\* about to write the match.  After the last document the list is returned
\* and POST /items answers (lines 142, 242-251).  Firestore returns the
\* documents ordered by their random ids: any order.
Scan(p, r) ==
  LET hits == { doc \in r.snapshot :
                  AboveThreshold(confidenceScore(items[doc], newItemData(r))) }
  IN IF hits = {}
     THEN Respond(p, r, CreatedCode, r.matches)
     ELSE \E doc \in hits :
            Continue(p, [r EXCEPT !.pc = "setMatch",
                                  !.snapshot = hits \ {doc},
                                  !.cand = doc,
                                  !.score = confidenceScore(items[doc],
                                                            newItemData(r))])

\* query.get() (line 76)
GenQuery(p) ==
  /\ req[p].pc = "query"
  /\ \E ok \in BOOLEAN :
       IF ok
       THEN Scan(p, [req[p] EXCEPT !.snapshot = Candidates(newItemData(req[p]))])
       ELSE GenFailed(p, req[p])
  /\ UNCHANGED <<items, matches, notifications, now, matchCand>>

\* matchRef.set(matchData) (lines 115-116)
GenSetMatch(p) ==
  /\ req[p].pc = "setMatch"
  /\ \E ok \in BOOLEAN :
       IF ok
       THEN /\ matches' = Append(matches,
                  matchData(req[p].itemId, req[p].body.status,
                            req[p].cand, req[p].score))
            /\ matchCand' = Append(matchCand, req[p].cand)
            /\ Continue(p, [req[p] EXCEPT !.pc = "setNotification",
                                          !.matchId = Len(matches) + 1])
       ELSE /\ GenFailed(p, req[p])
            /\ UNCHANGED <<matches, matchCand>>
  /\ UNCHANGED <<items, notifications, now>>

\* mutation of matchEntry: the candidate's id is pushed as the match id
matchEntryMutant(matchId, score, doc) ==
  [match_id |-> doc, confidence_score |-> score, matched_item |-> doc]

\* the element pushed on the returned list (lines 130-138); matched_item is
\* kept as the candidate's id
matchEntry(matchId, score, doc) ==
  [match_id |-> matchId, confidence_score |-> score, matched_item |-> doc]

\* notificationRef.set(notificationData), matches.push and the rest of the
\* loop (lines 127-140)
GenSetNotification(p) ==
  /\ req[p].pc = "setNotification"
  /\ \E ok \in BOOLEAN :
       IF ok
       THEN /\ notifications' = Append(notifications,
                  notificationData(items[req[p].cand], items[req[p].itemId],
                                   req[p].matchId))
            /\ Scan(p, [req[p] EXCEPT
                 !.cand = 0, !.score = 0, !.matchId = 0,
                 !.matches = Append(req[p].matches,
                    matchEntry(req[p].matchId, req[p].score, req[p].cand))])
       ELSE /\ GenFailed(p, req[p])
            /\ UNCHANGED notifications
  /\ UNCHANGED <<items, matches, now, matchCand>>

(***************************************************************************)
(* PUT /matches/:id/status                                                 *)
(***************************************************************************)
\* mutation of ValidMatchStatuses: the list check lets any status through
ValidMatchStatusesMutant == MatchStatusInputs

\* the list of line 472
ValidMatchStatuses == {"Pending", "Confirmed", "Rejected"}

\* mutation of userOwnsItem: only the lost item's poster is accepted
userOwnsItemMutant(m, uid) == items[m.lost_item_id].posted_by = uid

\* lines 497-498; items are never deleted, so both documents exist
userOwnsItem(m, uid) ==
  \/ items[m.lost_item_id].posted_by = uid
  \/ items[m.found_item_id].posted_by = uid

\* mutation of matchUpdate: the requested status is not the one written
matchUpdateMutant(m, status, ts) ==
  [m EXCEPT !.status = "Confirmed", !.updated_at = ts]

\* the fields matchRef.update writes (lines 507-510)
matchUpdate(m, status, ts) == [m EXCEPT !.status = status, !.updated_at = ts]

\* mutation of ItemWrites: a rejection marks the items Returned as well
ItemWritesOnRejectMutant(status) ==
  IF status \in {"Confirmed", "Rejected"} THEN {"lost", "found"} ELSE {}

\* mutation of ItemWrites: the found item is not updated
ItemWritesMutant(status) == IF status = "Confirmed" THEN {"lost"} ELSE {}

\* the item documents written on confirmation (lines 513-517)
ItemWrites(status) == IF status = "Confirmed" THEN {"lost", "found"} ELSE {}

\* matchRef.update (lines 507-510) and the decision of line 513
UpdateMatchWrite(p, r) ==
  \E ok \in BOOLEAN :
    IF ok
    THEN /\ matches' = [matches EXCEPT ![r.id] = matchUpdate(@, r.status, now)]
         /\ now' = now + 1
         /\ IF ItemWrites(r.status) = {}
            THEN Respond(p, r, 200, <<>>)
            ELSE Continue(p, [r EXCEPT !.pc = "updateItems",
                                       !.pending = ItemWrites(r.status)])
    ELSE /\ Respond(p, r, 500, <<>>)
         /\ UNCHANGED <<matches, now>>

\* The handler up to the match write (lines 469-510): validation, the three
\* document reads, the ownership test, matchRef.update.  Of what the reads
\* return the handler uses only fields that never change after creation
\* (lost_item_id, found_item_id, posted_by), so the request becomes visible
\* to the others at the write; prior is the status in matchData.
UpdateMatchStatus(p) ==
  /\ Accepts(p)
  /\ now <= MaxWrites
  /\ \E id \in 0..Len(matches), st \in MatchStatusInputs, u \in Users :
       LET r == [IdleReq EXCEPT !.op = "updateMatchStatus", !.user = u,
                                !.id = id, !.status = st]
       IN IF st \notin ValidMatchStatuses
          THEN Respond(p, r, 400, <<>>) /\ UNCHANGED <<matches, now>>
          ELSE \E read \in BOOLEAN :
                 IF ~read
                 THEN Respond(p, r, 500, <<>>) /\ UNCHANGED <<matches, now>>
                 ELSE IF id \notin DOMAIN matches
                 THEN Respond(p, r, 404, <<>>) /\ UNCHANGED <<matches, now>>
                 ELSE IF ~userOwnsItem(matches[id], u)
                 THEN Respond(p, r, 403, <<>>) /\ UNCHANGED <<matches, now>>
                 ELSE UpdateMatchWrite(p, [r EXCEPT !.prior = matches[id].status])
  /\ UNCHANGED <<items, notifications, matchCand>>

SideItem(m, side) == IF side = "lost" THEN m.lost_item_id ELSE m.found_item_id

\* One of the two item updates of the Promise.all (lines 514-517).  Both are
\* issued together and complete in either order; a rejected one makes the
\* request answer 500, the other one still reaches the store.
UpdateItemWrite(p) ==
  /\ req[p].pc = "updateItems"
  /\ \E side \in req[p].pending, ok \in BOOLEAN :
       LET rest == req[p].pending \ {side}
           failed == req[p].failed \/ ~ok
           r == [req[p] EXCEPT !.pending = rest, !.failed = failed]
       IN /\ items' = IF ok
                      THEN [items EXCEPT ![SideItem(matches[req[p].id], side)].status
                                           = "Returned"]
                      ELSE items
          /\ IF rest = {}
             THEN Respond(p, r, IF failed THEN 500 ELSE 200, <<>>)
             ELSE Continue(p, r)
  /\ UNCHANGED <<matches, notifications, now, matchCand>>

(***************************************************************************)
(* PUT /notifications/:id/read                                             *)
(***************************************************************************)
\* mutation of readUpdate: the flag is toggled
readUpdateMutant(n, ts) == [n EXCEPT !.is_read = ~n.is_read, !.read_at = ts]

\* the fields notificationRef.update writes (lines 372-375)
readUpdate(n, ts) == [n EXCEPT !.is_read = TRUE, !.read_at = ts]

\* mutation of isAddressee: any authenticated user may acknowledge
isAddresseeMutant(n, uid) == uid \in Users

\* the test of line 365, negated
isAddressee(n, uid) == n.user_id = uid

\* The whole handler (lines 351-380): notificationRef.get(), the two checks
\* and notificationRef.update.  user_id never changes after creation, so the
\* read and the write are taken in one step.
MarkRead(p) ==
  /\ Accepts(p)
  /\ now <= MaxWrites
  /\ \E id \in 0..Len(notifications), u \in Users, read \in BOOLEAN :
       LET r == [IdleReq EXCEPT !.op = "markRead", !.user = u, !.id = id]
       IN IF ~read
          THEN Respond(p, r, 500, <<>>) /\ UNCHANGED <<notifications, now>>
          ELSE IF id \notin DOMAIN notifications
          THEN Respond(p, r, 404, <<>>) /\ UNCHANGED <<notifications, now>>
          ELSE IF ~isAddressee(notifications[id], u)
          THEN Respond(p, r, 403, <<>>) /\ UNCHANGED <<notifications, now>>
          ELSE \E ok \in BOOLEAN :
                 IF ok
                 THEN /\ notifications' = [notifications EXCEPT ![id] =
                             readUpdate(@, now)]
                      /\ now' = now + 1
                      /\ Respond(p, r, 200, <<>>)
                 ELSE /\ Respond(p, r, 500, <<>>)
                      /\ UNCHANGED <<notifications, now>>
  /\ UNCHANGED <<items, matches, matchCand>>

(***************************************************************************)
(* The read handlers: GET /items, GET /users/:id, GET /notifications and   *)
(* GET /matches.  They issue only get() calls, so each is taken in one     *)
(* step; of the response only the status code is kept.                     *)
(***************************************************************************)
\* the request of a read handler and its answer; no document is written
ReadAnswer(p, op, u, code) ==
  /\ Respond(p, [IdleReq EXCEPT !.op = op, !.user = u], code, <<>>)
  /\ UNCHANGED <<items, matches, notifications, now, matchCand>>

\* lines 150-186: no authentication; 500 when query.get() rejects
GetItems(p) ==
  /\ Accepts(p)
  /\ \E ok \in BOOLEAN :
       ReadAnswer(p, "listItems", "none", IF ok THEN 200 ELSE 500)

\* lines 263-307: no authentication; the users collection is written by no
\* handler of this router, so whether the profile exists is the caller's
\* choice; 404 without it, 500 when a get() rejects
GetUser(p) ==
  /\ Accepts(p)
  /\ \E ok \in BOOLEAN, exists \in BOOLEAN :
       ReadAnswer(p, "getUser", "none",
                  IF ~ok THEN 500 ELSE IF ~exists THEN 404 ELSE 200)

\* lines 310-346
GetNotifications(p) ==
  /\ Accepts(p)
  /\ \E u \in Users, ok \in BOOLEAN :
       ReadAnswer(p, "listNotifications", u, IF ok THEN 200 ELSE 500)

\* lines 392-464: the user's items, the matches on either side, the two
\* items of each match
GetMatches(p) ==
  /\ Accepts(p)
  /\ \E u \in Users, ok \in BOOLEAN :
       ReadAnswer(p, "listMatches", u, IF ok THEN 200 ELSE 500)

(***************************************************************************)
(* Specifications.  Spec: requests arrive at any time and interleave at    *)
(* their awaits.  SerialSpec: a request is received only when no other is  *)
(* being served.  ReadSpec: Spec together with the read handlers.           *)
(* ScoreSpec: the scoring function alone, on two stored items.             *)
(***************************************************************************)
CreateItem(p) == CreateItemUpTo(p, MaxItems)

Next ==
  \E p \in Procs :
    \/ CreateItem(p)
    \/ GenQuery(p)
    \/ GenSetMatch(p)
    \/ GenSetNotification(p)
    \/ UpdateMatchStatus(p)
    \/ UpdateItemWrite(p)
    \/ MarkRead(p)

Spec == Init /\ [][Next]_vars

Alone(p) == \A q \in Procs \ {p} : Free(q)

SerialCreateItem(p) == Alone(p) /\ CreateItemUpTo(p, MaxSerialItems)
SerialUpdateMatchStatus(p) == Alone(p) /\ UpdateMatchStatus(p)
SerialMarkRead(p) == Alone(p) /\ MarkRead(p)

SerialNext ==
  \E p \in Procs :
    \/ SerialCreateItem(p)
    \/ GenQuery(p)
    \/ GenSetMatch(p)
    \/ GenSetNotification(p)
    \/ SerialUpdateMatchStatus(p)
    \/ UpdateItemWrite(p)
    \/ SerialMarkRead(p)

SerialSpec == Init /\ [][SerialNext]_vars

\* The scoring of lines 81-103 on its own: two stored items of one category,
\* a Lost one and a Found one, with title, description and location drawn
\* from the values below (as itemData stores them: trimmed, '' when not
\* sent); each is scored as the new item against the other as the existing
\* one, as the scan of its createItem request would.
ScoreTitles == {sKey, sKeys, sBag, <<>>}
ScoreDescriptions == {<<>>, sRedRed, sRed, sRedBag, sBagRed}
ScoreLocations == {<<>>, sLab, sLAB, sLabTwo}

ScoreItem(t, d, l, u, st) ==
  [title |-> t, description |-> d, category |-> sBags, location |-> l,
   image_url |-> "", posted_by |-> u, status |-> st]

ScoreInit ==
  /\ \E t1 \in ScoreTitles, d1 \in ScoreDescriptions, l1 \in ScoreLocations,
        t2 \in ScoreTitles, d2 \in ScoreDescriptions, l2 \in ScoreLocations :
       items = <<ScoreItem(t1, d1, l1, "u1", "Lost"),
                 ScoreItem(t2, d2, l2, "u2", "Found")>>
  /\ matches = <<>>
  /\ notifications = <<>>
  /\ now = 1
  /\ req = [p \in Procs |-> IdleReq]
  /\ last = NoAnswer
  /\ matchCand = <<>>

\* lines 79-103 for one document: slot p scores item new against item doc
ScoreStep(p, doc, new) ==
  /\ req[p].pc = "idle"
  /\ req' = [req EXCEPT ![p] =
        [IdleReq EXCEPT !.op = "createItem", !.pc = "scored",
                        !.user = items[new].posted_by,
                        !.itemId = new, !.cand = doc,
                        !.score = confidenceScore(items[doc], items[new])]]
  /\ UNCHANGED <<items, matches, notifications, now, last, matchCand>>

ScoreFoundAsNew == ScoreStep(1, 1, 2)
ScoreLostAsNew == ScoreStep(2, 2, 1)

ScoreNext == ScoreFoundAsNew \/ ScoreLostAsNew

ScoreSpec == ScoreInit /\ [][ScoreNext]_vars

\* Spec with the read handlers among the requests
ReadNext ==
  \E p \in Procs :
    \/ CreateItem(p)
    \/ GenQuery(p)
    \/ GenSetMatch(p)
    \/ GenSetNotification(p)
    \/ UpdateMatchStatus(p)
    \/ UpdateItemWrite(p)
    \/ MarkRead(p)
    \/ GetItems(p)
    \/ GetUser(p)
    \/ GetNotifications(p)
    \/ GetMatches(p)

ReadSpec == Init /\ [][ReadNext]_vars

(***************************************************************************)
(* Vocabulary of the properties.                                           *)
(***************************************************************************)
\* The step answers a request.  Every step either answers (Respond) or moves
\* a request to its next await (Continue: req changes, last does not).
Answers == ~(last' = last /\ req' # req)

\* The step is the match write of a PUT /matches/:id/status for match m
\* with the given user and status: either the request goes on to the item
\* writes or it is answered 200 at once.
MatchWrittenBy(m, u, st) ==
  \/ \E p \in Procs :
       /\ req[p].pc = "idle" /\ req'[p].pc = "updateItems"
       /\ req'[p].id = m /\ req'[p].user = u /\ req'[p].status = st
  \/ /\ Answers /\ req' = req
     /\ last'.op = "updateMatchStatus" /\ last'.code = 200
     /\ last'.id = m /\ last'.user = u /\ last'.status = st

BothReturned(m) ==
  /\ items[m.lost_item_id].status = "Returned"
  /\ items[m.found_item_id].status = "Returned"

ItemStatuses == [i \in DOMAIN items |-> items[i].status]
MatchStatuses == [m \in DOMAIN matches |-> matches[m].status]

(***************************************************************************)
(* C1.  As claimed: a Match never leaves a terminal status; once its       *)
(* status is Confirmed or Rejected no later updateMatchStatus call changes *)
(* it to a different value.                                                *)
(***************************************************************************)
C1_TerminalStatusKept ==
  [][\A m \in DOMAIN matches :
       matches[m].status \in {"Confirmed", "Rejected"}
         => matches'[m].status = matches[m].status]_vars

(***************************************************************************)
(* C1 as amended.  A Match is written with status Pending, and its status  *)
(* changes only by the match write of an updateMatchStatus request of a    *)
(* user who posted one of its two items, to the accepted value that        *)
(* request asks for, whatever the status was before: Confirmed and         *)
(* Rejected are not terminal.                                              *)
(***************************************************************************)
C1_StatusFollowsRequest ==
  [][\A m \in DOMAIN matches' :
       IF m \notin DOMAIN matches
       THEN matches'[m].status = "Pending"
       ELSE matches'[m].status # matches[m].status
              => \E u \in Users :
                   /\ MatchWrittenBy(m, u, matches'[m].status)
                   /\ matches'[m].status \in {"Pending", "Confirmed", "Rejected"}
                   /\ \/ items[matches[m].lost_item_id].posted_by = u
                      \/ items[matches[m].found_item_id].posted_by = u]_vars

\* C1 witness: a request answered 200 moved a match out of a terminal status.
C1_TerminalStatusLeft ==
  /\ last.op = "updateMatchStatus" /\ last.code = 200
  /\ last.prior \in {"Confirmed", "Rejected"}
  /\ last.status # last.prior
  /\ matches[last.id].status = last.status

(***************************************************************************)
(* C2.  Every Match in the store carries the score the scoring rules give  *)
(* for its candidate and its new item, that score is at least 30, and a    *)
(* Match that no updateMatchStatus has written yet is Pending; every       *)
(* Notification belongs to such a Match.  So no Match and no Notification  *)
(* exists for a candidate that scores below 30.                            *)
(***************************************************************************)
NewItemOf(m) ==
  IF matches[m].lost_item_id = matchCand[m]
  THEN matches[m].found_item_id ELSE matches[m].lost_item_id

C2_MatchesRespectThreshold ==
  /\ \A m \in DOMAIN matches :
       /\ matches[m].confidence_score >= 30
       /\ matches[m].confidence_score
            = confidenceScore(items[matchCand[m]], items[NewItemOf(m)])
       /\ matches[m].updated_at = 0 => matches[m].status = "Pending"
  /\ \A n \in DOMAIN notifications :
       notifications[n].match_id \in DOMAIN matches
  /\ \A p \in Procs :
       req[p].pc \in {"setMatch", "setNotification"} => req[p].score >= 30

\* C2 witness: POST /items was answered 201 with no match although a
\* candidate with a positive score below 30 was in the store.
C2_CandidateBelowThreshold ==
  /\ last.op = "createItem" /\ last.code = 201 /\ ~last.genError
  /\ last.matches = <<>> /\ matches = <<>> /\ notifications = <<>>
  /\ \E i \in DOMAIN items :
       /\ i # last.itemId
       /\ items[i].category = items[last.itemId].category
       /\ items[i].status = Opposite(items[last.itemId].status)
       /\ confidenceScore(items[i], items[last.itemId]) \in 1..29

(***************************************************************************)
(* C3.  When updateMatchStatus with Confirmed is answered 200, both items  *)
(* of the match are Returned.  Its match write leaves the match Confirmed. *)
(* A confirmation of a match that is already Confirmed with both items     *)
(* Returned changes no match status and no item status with any of its     *)
(* writes, and is answered 200 unless one of its store writes is rejected. *)
(***************************************************************************)
C3_ConfirmedMeansReturned ==
  /\ (last.op = "updateMatchStatus" /\ last.status = "Confirmed"
        /\ last.code = 200)
       => BothReturned(matches[last.id])
  /\ (last.op = "updateMatchStatus" /\ last.status = "Confirmed"
        /\ last.prior = "Confirmed")
       => last.code \in {200, 500}

C3_ConfirmationWrites ==
  \A m \in DOMAIN matches :
    /\ (\E u \in Users : MatchWrittenBy(m, u, "Confirmed"))
         => /\ matches'[m].status = "Confirmed"
            /\ (matches[m].status = "Confirmed"
                  => MatchStatuses' = MatchStatuses)
    /\ \A p \in Procs :
         (req[p].pc = "updateItems" /\ req[p].id = m /\ BothReturned(matches[m]))
           => (req'[p] # req[p] => ItemStatuses' = ItemStatuses)

C3_ConfirmSetsReturned ==
  [](C3_ConfirmedMeansReturned) /\ [][C3_ConfirmationWrites]_vars

\* C3 witness: a second confirmation of a Confirmed match was answered 200.
C3_ConfirmedTwice ==
  /\ last.op = "updateMatchStatus" /\ last.status = "Confirmed"
  /\ last.code = 200 /\ last.prior = "Confirmed"
  /\ matches[last.id].status = "Confirmed"
  /\ BothReturned(matches[last.id])

(***************************************************************************)
(* C4.  An updateMatchStatus call on an existing match whose reads         *)
(* succeeded is answered 403 exactly when the user posted neither item of  *)
(* the match; the step that answers 403 changes no document.               *)
(***************************************************************************)
OwnerOf(m, u) ==
  \/ items[matches[m].lost_item_id].posted_by = u
  \/ items[matches[m].found_item_id].posted_by = u

C4_ForbiddenIffNotOwner ==
  (/\ last.op = "updateMatchStatus"
   /\ last.id \in DOMAIN matches
   /\ last.status \in {"Pending", "Confirmed", "Rejected"})
    => /\ ~OwnerOf(last.id, last.user) => last.code \in {403, 500}
       /\ OwnerOf(last.id, last.user) => last.code # 403
       /\ (~OwnerOf(last.id, last.user) /\ last.code = 500) => last.prior = ""

C4_ForbiddenChangesNothing ==
  (Answers /\ last'.op = "updateMatchStatus" /\ last'.code = 403)
    => UNCHANGED <<items, matches, notifications, now>>

C4_OnlyOwnersUpdate ==
  [](C4_ForbiddenIffNotOwner) /\ [][C4_ForbiddenChangesNothing]_vars

\* C4 witness: a user who posted neither item was answered 403.
C4_StrangerForbidden ==
  /\ last.op = "updateMatchStatus" /\ last.code = 403
  /\ last.id \in DOMAIN matches
  /\ ~OwnerOf(last.id, last.user)

(***************************************************************************)
(* C5.  updateMatchStatus with a status other than Pending, Confirmed or   *)
(* Rejected is answered 400 for every match id and user, and the step that *)
(* answers it changes no document.                                         *)
(***************************************************************************)
C5_InvalidStatusIs400 ==
  (last.op = "updateMatchStatus"
     /\ last.status \notin {"Pending", "Confirmed", "Rejected"})
    => last.code = 400

C5_InvalidStatusChangesNothing ==
  (Answers /\ last'.op = "updateMatchStatus"
     /\ last'.status \notin {"Pending", "Confirmed", "Rejected"})
    => UNCHANGED <<items, matches, notifications, now, req>>

C5_InvalidStatusRejected ==
  [](C5_InvalidStatusIs400) /\ [][C5_InvalidStatusChangesNothing]_vars

\* C5 witness: an owner's request with status Invalid on an existing match
\* was answered 400.
C5_InvalidOnExistingMatch ==
  /\ last.op = "updateMatchStatus" /\ last.status = "Invalid"
  /\ last.code = 400
  /\ last.id \in DOMAIN matches
  /\ OwnerOf(last.id, last.user)

(***************************************************************************)
(* C6.  When a store call inside generateMatches is rejected (the          *)
(* candidate query, a Match write or a Notification write), POST /items is *)
(* still answered 201, the new Item is in the store as posted, and the     *)
(* returned match list is empty.                                           *)
(***************************************************************************)
C6_GenFailureStillCreates ==
  (last.op = "createItem" /\ last.genError)
    => /\ last.code = 201
       /\ last.itemId \in DOMAIN items
       /\ [items[last.itemId] EXCEPT !.status = last.body.status]
            = itemData(last.body, last.user, last.image_url)
       /\ last.matches = <<>>

\* C6 witness: the error came after the request had written a Match and its
\* Notification for an earlier candidate.
C6_FailedPartWay ==
  /\ last.op = "createItem" /\ last.genError /\ last.code = 201
  /\ \E m \in DOMAIN matches :
       /\ NewItemOf(m) = last.itemId
       /\ \E n \in DOMAIN notifications : notifications[n].match_id = m

(***************************************************************************)
(* C7.  As claimed: a createItem request whose title or category is absent *)
(* or empty after trimming, or whose status is not exactly Lost or Found,  *)
(* is answered 400 with no upload started and no Item written (an answer   *)
(* of 500, given when the store rejects the item write, is not held        *)
(* against the claim here); so every Item in the store has a non-empty     *)
(* title and category and a status it can have been created with.          *)
(***************************************************************************)
Blank(v) == ~Truthy(v) \/ trim(v) = <<>>

C7_ValidationPrecedesEffects ==
  /\ (last.op = "createItem" /\ last.code # 500
        /\ (Blank(last.body.title) \/ Blank(last.body.category)
              \/ last.body.status \notin {"Lost", "Found"}))
       => (last.code = 400 /\ ~last.uploadStarted /\ last.itemId = 0)
  /\ \A i \in DOMAIN items :
       items[i].title # <<>> /\ items[i].category # <<>>

(***************************************************************************)
(* C8.  When image bytes are supplied and the upload fails, createItem is  *)
(* answered 400 and the request writes no Item, Match or Notification.     *)
(***************************************************************************)
UploadRejected(a) ==
  a.op = "createItem" /\ a.uploadStarted /\ a.image_url = ""

C8_UploadFailureIs400 ==
  UploadRejected(last)
    => (last.code = 400 /\ last.itemId = 0 /\ last.matches = <<>>)

C8_UploadFailureWritesNothing ==
  (Answers /\ UploadRejected(last'))
    => UNCHANGED <<items, matches, notifications, req>>

C8_UploadFailureAborts ==
  [](C8_UploadFailureIs400) /\ [][C8_UploadFailureWritesNothing]_vars

\* C8 witness: a valid post with a file was answered 400 after its upload
\* was started.
C8_UploadFailed ==
  /\ UploadRejected(last) /\ last.code = 400
  /\ CreateItemValid(last.body) /\ last.body.hasFile

(***************************************************************************)
(* C9.  As claimed: whenever no createItem request is in flight, every     *)
(* Match has exactly one Notification with its id, every Notification      *)
(* references an existing Match and is addressed to the poster of the      *)
(* match's candidate item.                                                 *)
(***************************************************************************)
NotificationsOf(m) ==
  { n \in DOMAIN notifications : notifications[n].match_id = m }

NotificationsWellAddressed ==
  \A n \in DOMAIN notifications :
    /\ notifications[n].match_id \in DOMAIN matches
    /\ notifications[n].user_id
         = items[matchCand[notifications[n].match_id]].posted_by

C9_AtMostOneNotification ==
  /\ \A m \in DOMAIN matches : Cardinality(NotificationsOf(m)) <= 1
  /\ NotificationsWellAddressed

C9_NotificationWrite ==
  /\ \A p \in Procs :
       (req[p].pc = "setNotification" /\ req'[p] # req[p])
         => \/ notifications' = Append(notifications,
                  [user_id |-> items[req[p].cand].posted_by,
                   is_read |-> FALSE,
                   match_id |-> req[p].matchId,
                   read_at |-> 0])
            \/ /\ notifications' = notifications
               /\ req'[p].pc = "idle"
               /\ last'.genError /\ last'.code = 201 /\ last'.matches = <<>>
  /\ Len(notifications') # Len(notifications)
       => \E p \in Procs : req[p].pc = "setNotification" /\ req'[p] # req[p]

C10_SidesHaveStatusAtWrite ==
  [][\A m \in DOMAIN matches' :
       m \notin DOMAIN matches
         => /\ items[matches'[m].lost_item_id].status = "Lost"
            /\ items[matches'[m].found_item_id].status = "Found"]_vars

(***************************************************************************)
(* C11.  Item status changes only through confirmation.  No step removes   *)
(* an Item or changes a field of an existing Item other than status.  The  *)
(* status of an existing Item changes only in an item write of an          *)
(* updateMatchStatus request with status Confirmed that was accepted (its  *)
(* status is valid, its user posted one of the two items, its match write  *)
(* was done), on an item that match references, and only from Lost or      *)
(* Found to Returned.  So createItem, generateMatches, markRead, the read  *)
(* handlers and updateMatchStatus with Pending or Rejected change no       *)
(* existing Item, and a Returned item stays Returned.                      *)
(***************************************************************************)
ReadOps == {"listItems", "getUser", "listNotifications", "listMatches"}

\* the step is an item write of an accepted Confirmed request on item i
ConfirmationWrites(i) ==
  \E p \in Procs :
    /\ req[p].op = "updateMatchStatus" /\ req[p].pc = "updateItems"
    /\ req[p].status = "Confirmed"
    /\ req'[p] # req[p]
    /\ req[p].id \in DOMAIN matches
    /\ matches[req[p].id].updated_at > 0
    /\ OwnerOf(req[p].id, req[p].user)
    /\ i \in {matches[req[p].id].lost_item_id, matches[req[p].id].found_item_id}

C11_ItemFrame ==
  /\ Len(items') >= Len(items)
  /\ \A i \in DOMAIN items :
       /\ items'[i] = [items[i] EXCEPT !.status = items'[i].status]
       /\ items[i].status = "Returned" => items'[i].status = "Returned"
       /\ items'[i].status # items[i].status
            => /\ items'[i].status = "Returned"
               /\ ConfirmationWrites(i)
  /\ (\/ \E p \in Procs : req[p].op \in {"createItem"} /\ req'[p] # req[p]
      \/ Answers /\ last'.op \in ReadOps \cup {"markRead", "createItem"}
      \/ Answers /\ last'.op = "updateMatchStatus"
                 /\ last'.status \in {"Pending", "Rejected"})
       => ItemStatuses' \in {ItemStatuses, Append(ItemStatuses, "Lost"),
                             Append(ItemStatuses, "Found")}

MarkReadAnswered(n, u) ==
  Answers /\ last'.op = "markRead" /\ last'.id = n /\ last'.user = u

C12_ReadStaysRead ==
  /\ \A n \in DOMAIN notifications :
       /\ notifications[n].is_read => notifications'[n].is_read
       /\ (MarkReadAnswered(n, notifications[n].user_id)
             /\ notifications[n].is_read)
            => /\ last'.code \in {200, 500}
               /\ notifications'[n].is_read
               /\ last'.code = 500 => notifications' = notifications
       /\ (MarkReadAnswered(n, notifications[n].user_id) /\ last'.code = 200)
            => notifications'[n].is_read
  /\ Len(notifications') >= Len(notifications)

C12_AnsweredReadIsRead ==
  (last.op = "markRead" /\ last.code = 200)
    => /\ last.id \in DOMAIN notifications
       /\ notifications[last.id].is_read

C12_MarkReadIdempotent ==
  [](C12_AnsweredReadIsRead) /\ [][C12_ReadStaysRead]_vars

\* C12 witness: the addressee's second markRead on the same notification was
\* answered 200: the clock has given out two timestamps, the second one to
\* this notification, and no match and no other notification took the first.
C12_ReadTwice ==
  /\ last.op = "markRead" /\ last.code = 200
  /\ last.id \in DOMAIN notifications
  /\ notifications[last.id].is_read /\ notifications[last.id].read_at = 2
  /\ \A m \in DOMAIN matches : matches[m].updated_at = 0
  /\ \A n \in DOMAIN notifications \ {last.id} : notifications[n].read_at = 0

(***************************************************************************)
(* C13.  markRead error outcomes leave the state unchanged.  A markRead on *)
(* an id that resolves to no notification is answered 404, one by a user   *)
(* other than the notification's user_id is answered 403 (500 when the     *)
(* read of the document is rejected); 404 and 403 are given in no other    *)
(* case; and the step that answers either changes no document: is_read and *)
(* read_at of every notification are as before.                            *)
(***************************************************************************)
C13_MarkReadErrors ==
  (Answers /\ last'.op = "markRead")
    => /\ last'.id \notin DOMAIN notifications
            => last'.code \in {404, 500}
       /\ (last'.id \in DOMAIN notifications
             /\ notifications[last'.id].user_id # last'.user)
            => last'.code \in {403, 500}
       /\ last'.code = 404 => last'.id \notin DOMAIN notifications
       /\ last'.code = 403
            => /\ last'.id \in DOMAIN notifications
               /\ notifications[last'.id].user_id # last'.user
       /\ (\/ last'.code \in {403, 404}
           \/ last'.id \notin DOMAIN notifications
           \/ notifications[last'.id].user_id # last'.user)
            => UNCHANGED <<items, matches, notifications, now, req>>

C13_MarkReadErrorsChangeNothing == [][C13_MarkReadErrors]_vars

\* C13 witness: a user other than the addressee was answered 403 on a
\* notification the addressee had read; it is as the addressee left it.
C13_ForbiddenOnReadNotification ==
  /\ last.op = "markRead" /\ last.code = 403
  /\ last.id \in DOMAIN notifications
  /\ notifications[last.id].user_id # last.user
  /\ notifications[last.id].is_read
  /\ notifications[last.id].read_at = 1
  /\ now = 2

\* C13, the other error: an id that resolves to no notification, asked for
\* while notifications exist, was answered 404.
C13_NotFoundAnswered ==
  /\ last.op = "markRead" /\ last.code = 404
  /\ last.id \notin DOMAIN notifications
  /\ notifications # <<>>

(***************************************************************************)
(* C14.  Only same-category, opposite-status items are matched.  The       *)
(* documents a createItem request's query returns are other items of the   *)
(* new item's category whose status, at the query, is the opposite of the  *)
(* new item's; the request takes its candidates from them only, and every  *)
(* Match written links the request's new item, on the side of its status,  *)
(* to such a candidate.  So the two items of every Match have the same     *)
(* category and are different items.  A createItem answered 201 for an     *)
(* item whose category no other item has returns no match, and no Match    *)
(* and hence no Notification references that item.                         *)
(***************************************************************************)
\* the documents a request still holds from its query
Held(r) == r.snapshot \cup (IF r.cand = 0 THEN {} ELSE {r.cand})

C14_QueryStep ==
  \A p \in Procs :
    /\ (req[p].pc = "query" /\ req'[p] # req[p])
         => \A d \in Held(req'[p]) :
              /\ d \in DOMAIN items /\ d # req[p].itemId
              /\ items[d].category = items[req[p].itemId].category
              /\ items[d].status = Opposite(req[p].body.status)
    /\ (req[p].pc \in {"setMatch", "setNotification"})
         => Held(req'[p]) \subseteq Held(req[p])
    /\ (req[p].pc = "setMatch" /\ req'[p].pc = "setNotification")
         => /\ Len(matches') = Len(matches) + 1
            /\ LET m == matches'[Len(matches')]
               IN IF req[p].body.status = "Lost"
                  THEN m.lost_item_id = req[p].itemId
                       /\ m.found_item_id = req[p].cand
                  ELSE m.found_item_id = req[p].itemId
                       /\ m.lost_item_id = req[p].cand

C14_MatchWrittenByScan ==
  /\ Len(matches') # Len(matches)
       => \E p \in Procs :
            req[p].pc = "setMatch" /\ req'[p].pc = "setNotification"
  /\ \A m \in DOMAIN matches :
       /\ matches'[m].lost_item_id = matches[m].lost_item_id
       /\ matches'[m].found_item_id = matches[m].found_item_id

C14_SameCategory ==
  /\ \A m \in DOMAIN matches :
       /\ matches[m].lost_item_id # matches[m].found_item_id
       /\ items[matches[m].lost_item_id].category
            = items[matches[m].found_item_id].category
       /\ items[matches[m].lost_item_id].status \in {"Lost", "Returned"}
       /\ items[matches[m].found_item_id].status \in {"Found", "Returned"}
  /\ \A p \in Procs : \A d \in Held(req[p]) :
       /\ items[d].category = items[req[p].itemId].category
       /\ items[d].status \in {Opposite(req[p].body.status), "Returned"}
  /\ (last.op = "createItem" /\ last.code = 201
        /\ \A i \in DOMAIN items \ {last.itemId} :
              items[i].category # items[last.itemId].category)
       => /\ last.matches = <<>>
          /\ \A m \in DOMAIN matches :
               last.itemId \notin {matches[m].lost_item_id,
                                    matches[m].found_item_id}
          /\ \A n \in DOMAIN notifications :
               NewItemOf(notifications[n].match_id) # last.itemId

C14_OnlyOppositeSameCategory ==
  /\ [](C14_SameCategory)
  /\ [][C14_QueryStep /\ C14_MatchWrittenByScan]_vars

\* C14 witness: a Lost item of a category of its own was posted while a
\* Found item of another category, with which its title scores 40, was in
\* the store; 201 with no match, no Match and no Notification written.
C14_OtherCategoryNoMatch ==
  /\ last.op = "createItem" /\ last.code = 201 /\ ~last.genError
  /\ last.itemId = 2 /\ last.matches = <<>>
  /\ items[1].category # items[2].category
  /\ items[1].status = Opposite(last.body.status)
  /\ confidenceScore(items[1], items[2]) >= 30
  /\ matches = <<>> /\ notifications = <<>>

(***************************************************************************)
(* C15.  Concurrent creation can duplicate a match.  Two Match documents   *)
(* with the same (lost_item_id, found_item_id) pair can exist (the         *)
(* witness), and when two Matches link the same two items they carry the   *)
(* same pair and each item is the candidate of one of them and the new     *)
(* item of the other: they were written by the two createItem requests,    *)
(* each of which found the other's item in the store at its query.         *)
(***************************************************************************)
SameItems(m1, m2) ==
  {matches[m1].lost_item_id, matches[m1].found_item_id}
    = {matches[m2].lost_item_id, matches[m2].found_item_id}

C15_DuplicatesAreMutual ==
  \A m1 \in DOMAIN matches : \A m2 \in DOMAIN matches :
    (m1 # m2 /\ SameItems(m1, m2))
      => /\ matches[m1].lost_item_id = matches[m2].lost_item_id
         /\ matches[m1].found_item_id = matches[m2].found_item_id
         /\ matchCand[m1] = NewItemOf(m2)
         /\ matchCand[m2] = NewItemOf(m1)
         /\ confidenceScore(items[matchCand[m1]], items[NewItemOf(m1)]) >= 30
         /\ confidenceScore(items[matchCand[m2]], items[NewItemOf(m2)]) >= 30

\* C15 witness: with no request in flight, two Match documents have the
\* same lost_item_id and the same found_item_id.
C15_DuplicateMatch ==
  /\ \A p \in Procs : req[p].pc = "idle"
  /\ \E m1 \in DOMAIN matches : \E m2 \in DOMAIN matches :
       /\ m1 # m2
       /\ matches[m1].lost_item_id = matches[m2].lost_item_id
       /\ matches[m1].found_item_id = matches[m2].found_item_id
       /\ items[matches[m1].lost_item_id].posted_by
            # items[matches[m1].found_item_id].posted_by

(***************************************************************************)
(* C16.  As claimed: scoring is symmetric; for every pair of items the     *)
(* score computed with X as the existing item and Y as the new one equals  *)
(* the score computed with Y as existing and X as new.                     *)
(***************************************************************************)
BothScored == req[1].pc = "scored" /\ req[2].pc = "scored"

RepeatsToken(d) ==
  LET words == split(toLowerCase(d))
  IN \E i \in 1..Len(words) : \E j \in 1..Len(words) :
       i # j /\ words[i] = words[j]

C17_ReadAtSetOnce ==
  [][\A n \in DOMAIN notifications :
       notifications[n].is_read
         => notifications'[n].read_at = notifications[n].read_at]_vars

(***************************************************************************)
(* C18.  As claimed: the list createItem returns is exactly the set of     *)
(* Match documents its generateMatches call wrote, also when a store call  *)
(* failed part-way through the scan.                                       *)
(***************************************************************************)
\* the Match documents written by the request that created item i
WrittenFor(i) == { m \in DOMAIN matches : NewItemOf(m) = i }

ReturnedIds(a) == { a.matches[k].match_id : k \in DOMAIN a.matches }

C18_ReturnedIsWritten ==
  (last.op = "createItem" /\ last.code = 201)
    => ReturnedIds(last) = WrittenFor(last.itemId)

(***************************************************************************)
(* C18 as amended.  Every element of the list createItem returns is a      *)
(* Match its generateMatches call wrote, once each, with that Match's      *)
(* score and candidate.  When no store call of the scan was rejected the   *)
(* list holds every Match the call wrote, each with its Notification.      *)
(* When one was rejected the list is empty, while the Matches written      *)
(* before the error stay in the store.                                     *)
(***************************************************************************)
C18_ReturnedAmongWritten ==
  (last.op = "createItem" /\ last.code = 201)
    => /\ ReturnedIds(last) \subseteq WrittenFor(last.itemId)
       /\ Cardinality(ReturnedIds(last)) = Len(last.matches)
       /\ \A k \in DOMAIN last.matches :
            LET e == last.matches[k]
            IN /\ e.match_id \in DOMAIN matches
               /\ e.confidence_score = matches[e.match_id].confidence_score
               /\ e.matched_item = matchCand[e.match_id]
       /\ ~last.genError
            => /\ ReturnedIds(last) = WrittenFor(last.itemId)
               /\ \A m \in WrittenFor(last.itemId) : NotificationsOf(m) # {}
       /\ last.genError => last.matches = <<>>

\* C18 witness: the request wrote two Matches, a store call of its scan was
\* rejected after that, and it returned the empty list.
C18_WrittenNotReturned ==
  /\ last.op = "createItem" /\ last.code = 201 /\ last.genError
  /\ last.matches = <<>>
  /\ Cardinality(WrittenFor(last.itemId)) = 2

\* C18, the case without an error: both Matches written are returned.
C18_BothReturnedInList ==
  /\ last.op = "createItem" /\ last.code = 201 /\ ~last.genError
  /\ Len(last.matches) = 2
  /\ Cardinality(WrittenFor(last.itemId)) = 2

(***************************************************************************)
(* C19.  Without interleaving there are no duplicate matches: when each    *)
(* request completes before the next one starts, no two Match documents    *)
(* have the same (lost_item_id, found_item_id) pair, and no Match has      *)
(* lost_item_id equal to found_item_id.  The new item of a Match was       *)
(* stored after its candidate.                                             *)
(***************************************************************************)
C19_NoDuplicateWhenSerial ==
  /\ \A m1 \in DOMAIN matches : \A m2 \in DOMAIN matches :
       (/\ matches[m1].lost_item_id = matches[m2].lost_item_id
        /\ matches[m1].found_item_id = matches[m2].found_item_id)
         => m1 = m2
  /\ \A m \in DOMAIN matches :
       /\ matches[m].lost_item_id # matches[m].found_item_id
       /\ matchCand[m] < NewItemOf(m)

\* C19 witness: three items posted one request at a time, the third matched
\* with each of the first two: two Matches that share one item and differ in
\* the other.
C19_TwoMatchesOneItem ==
  /\ \A p \in Procs : req[p].pc = "idle"
  /\ Len(items) = 3
  /\ \E m1 \in DOMAIN matches : \E m2 \in DOMAIN matches :
       /\ m1 # m2
       /\ NewItemOf(m1) = 3 /\ NewItemOf(m2) = 3
       /\ matchCand[m1] # matchCand[m2]

(***************************************************************************)
(* C20.  As claimed: item and match status stay consistent; in every       *)
(* state in which no updateMatchStatus request is in flight, an Item is    *)
(* Returned only if some Match referencing it is Confirmed, and every      *)
(* Confirmed Match has both of its items Returned.                         *)
(***************************************************************************)
ReturnedHasConfirmedMatch ==
  \A i \in DOMAIN items :
    items[i].status = "Returned"
      => \E m \in DOMAIN matches :
           /\ i \in {matches[m].lost_item_id, matches[m].found_item_id}
           /\ matches[m].status = "Confirmed"

ConfirmedHasReturnedItems ==
  \A m \in DOMAIN matches :
    matches[m].status = "Confirmed" => BothReturned(matches[m])

C20_StatusConsistent ==
  (\A p \in Procs : req[p].op # "updateMatchStatus")
    => (ReturnedHasConfirmedMatch /\ ConfirmedHasReturnedItems)

=============================================================================
